---------------------------- MODULE Spec2Model ----------------------------
(***************************************************************************)
(* A model of create_map_poster.py: theme feature gating, the cache key,   *)
(* the pickle cache, the fetch pipeline of create_poster, road             *)
(* classification and colouring, and the layer drawing order.              *)
(*                                                                         *)
(* Python values are represented as follows.                               *)
(*   - a dict is a TLA+ function (record) whose DOMAIN is its key set;     *)
(*   - a theme value is tagged with its Python type:                       *)
(*       [kind |-> "str",  v |-> "#C0C0C0"]                                *)
(*       [kind |-> "list", v |-> << "#000000", "#FFFFFF" >>]               *)
(*       [kind |-> "dict", v |-> [type |-> "gradient", colors |-> ...]]    *)
(*   - a coordinate is an integer number of 1e-7 degrees, so that the      *)
(*     rounding of "%.6f" is visible;                                      *)
(*   - hashlib.md5 is an ideal digest: md5(s) is the pair <<"md5", s>>,    *)
(*     so different key strings have different digests.                    *)
(***************************************************************************)
EXTENDS Integers, Sequences, FiniteSets, TLC

VARIABLES
    gtheme,     \* SpecGate: the theme handed to get_enabled_features
    genabled,   \* SpecGate: << >> before the call, << result >> after it
    pconfig,    \* SpecParse: the theme value handed to parse_color_config
    pparsed,    \* SpecParse: << >> before the call, << result >> after it
    theme_doc,  \* SpecTheme: the theme file load_theme is to read
    theme_loaded,   \* SpecTheme: "none", "ok" or "raised": what load_theme did
    kreq,       \* SpecKey: two requests [theme, point, dist, network_type]
    kres,       \* SpecKey: per request << >> or << [enabled, key] >>
    THEME,      \* the global THEME dict
    G,          \* the street graph [nodes, edges]
    bounds,     \* << >> (None) or << minx, miny, maxx, maxy >>
    edge_keys,  \* per edge, the theme key chosen by get_edge_colors_by_type
    edge_colors,    \* the result of get_edge_colors_by_type, << >> before
    edge_widths,    \* the result of get_edge_widths_by_type, << >> before
    CMAP_CACHE, \* the global colormap cache: colour tuple -> colormap
    cmap_built, \* the colour tuples from_list has built a colormap for,
                \*   in order of construction
    cmap_calls, \* the calls of get_cached_cmap: [request, raised, cmap]
    rdone,      \* which of the two edge functions have been called
    cache_dir,  \* whether the directory CACHE_DIR exists
    cache_files,    \* the files of CACHE_DIR: cache key -> [ok, data]
    pc,         \* where the run of create_poster stands
    args,       \* its arguments [point, dist, network_type, use_cache]
    enabled_features,   \* its local enabled_features
    cache_key,  \* its local cache_key
    cached_data,    \* its local cached_data: << >> (None) or << dataset >>
    feat,       \* its locals water .. airports, by feature name:
                \*   << >> (None) or << the geometry types of the frame >>
    fetch_log,  \* the fetches this run has invoked, in order
    failed,     \* the features whose fetch raised in this run
    load_result,    \* "none", "miss", "corrupt" or "hit" for this run
    save_result,    \* "none", "saved", "warned" or "raised" for this run
    drawn,      \* the layers this run has drawn, in call order
    resolved,   \* the theme keys whose colour this run has resolved for
                \*   a feature layer, in call order
    output,     \* "none" or "written": this run's output file
    error,      \* the call whose exception aborted the run, or "none"
    log,        \* the warnings this run has printed
    runs,       \* the number of runs started
    prev        \* << >> or << a summary of the previous run >>

gateVars == << gtheme, genabled >>
parseVars == << pconfig, pparsed >>
themeVars == << theme_doc, theme_loaded >>
keyVars == << kreq, kres >>
roadVars ==
    << THEME, G, bounds, edge_keys, edge_colors, edge_widths, CMAP_CACHE,
       cmap_built, cmap_calls, rdone >>
fsVars == << cache_dir, cache_files >>
runVars ==
    << pc, args, enabled_features, cache_key, cached_data, feat, fetch_log,
       failed, load_result, save_result, drawn, resolved, output, error, log,
       runs,
       prev >>
vars == << gateVars, parseVars, themeVars, keyVars, roadVars, fsVars, runVars >>

---------------------------------------------------------------------------
(* Theme values *)

Str(c) == [kind |-> "str", v |-> c]
List(cs) == [kind |-> "list", v |-> cs]
Dict(d) == [kind |-> "dict", v |-> d]

\* The ten feature names, in the order of the feature_keys dict literal.
FeatureNames ==
    << "water", "parks", "stadiums", "railway", "forest",
       "beach", "coastline", "education", "worship", "airport" >>

FeatureSet == { FeatureNames[i] : i \in 1..Len(FeatureNames) }

\* The feature_keys dict of get_enabled_features: feature name -> theme key.
feature_keys ==
    [ water |-> "water", parks |-> "parks", stadiums |-> "stadiums",
      railway |-> "railway", forest |-> "forest", beach |-> "beach",
      coastline |-> "coastline", education |-> "education",
      worship |-> "worship", airport |-> "airport" ]

\* A plausible slip: a feature counts as enabled only when its value is a
\* plain colour string (a value test instead of a key test).
get_enabled_features_byValue(theme) ==
    [ f \in DOMAIN feature_keys |->
        /\ feature_keys[f] \in DOMAIN theme
        /\ theme[feature_keys[f]].kind = "str" ]

\* get_enabled_features: enabled[feature_name] = theme_key in theme
get_enabled_features(theme) ==
    [ f \in DOMAIN feature_keys |-> feature_keys[f] \in DOMAIN theme ]

---------------------------------------------------------------------------
(* The cache key *)

\* Python's sorted() on feature names: the names in alphabetical order.
Alphabetical ==
    << "airport", "beach", "coastline", "education", "forest",
       "parks", "railway", "stadiums", "water", "worship" >>

RECURSIVE join(_, _)
\* sep.join(seq)
join(sep, seq) ==
    IF seq = << >> THEN ""
    ELSE IF Len(seq) = 1 THEN seq[1]
    ELSE seq[1] \o sep \o join(sep, Tail(seq))

\* sorted([k for k, v in enabled_features.items() if v])
sorted_enabled(features) ==
    LET on(k) == k \in DOMAIN features /\ features[k]
    IN  SelectSeq(Alphabetical, on)

Abs(n) == IF n < 0 THEN -n ELSE n

\* Zero-padded six digits of 0 <= n < 10^6.
Pad6(n) ==
    IF n < 10 THEN "00000" \o ToString(n)
    ELSE IF n < 100 THEN "0000" \o ToString(n)
    ELSE IF n < 1000 THEN "000" \o ToString(n)
    ELSE IF n < 10000 THEN "00" \o ToString(n)
    ELSE IF n < 100000 THEN "0" \o ToString(n)
    ELSE ToString(n)

\* f"{x:.6f}" of a coordinate x given in units of 1e-7 degrees: the magnitude
\* rounded to the nearest 1e-6, with the sign kept ("-0.000000").  A last
\* digit of 5 is excluded from the inputs: how a float that prints as such a
\* value rounds depends on its binary representation.
Fmt6(x7) ==
    LET m == (Abs(x7) + 5) \div 10
    IN  (IF x7 < 0 THEN "-" ELSE "")
            \o ToString(m \div 1000000) \o "." \o Pad6(m % 1000000)

md5(s) == << "md5", s >>

\* A plausible slip: the network type left out of the key string.
get_cache_key_noNetworkType(point, dist, network_type, features) ==
    LET features_str == join("_", sorted_enabled(features))
        key_string == Fmt6(point[1]) \o "_" \o Fmt6(point[2]) \o "_"
                        \o ToString(dist) \o "_" \o features_str
    IN  md5(key_string)

\* get_cache_key
get_cache_key(point, dist, network_type, features) ==
    LET features_str == join("_", sorted_enabled(features))
        key_string == Fmt6(point[1]) \o "_" \o Fmt6(point[2]) \o "_"
                        \o ToString(dist) \o "_" \o network_type \o "_"
                        \o features_str
    IN  md5(key_string)

---------------------------------------------------------------------------
(* Colours *)

Range(f) == { f[x] : x \in DOMAIN f }

\* {}
EmptyDict == [ k \in {} |-> 0 ]

SetMin(S) == CHOOSE m \in S : \A n \in S : m <= n
SetMax(S) == CHOOSE m \in S : \A n \in S : n <= m

\* The 8-bit channels of the hex colour strings the model uses.
HexRGB ==
    ( "#000000" :> << 0, 0, 0 >> ) @@ ( "#FFFFFF" :> << 255, 255, 255 >> )
    @@ ( "#0A0A0A" :> << 10, 10, 10 >> ) @@ ( "#1A1A1A" :> << 26, 26, 26 >> )
    @@ ( "#2A2A2A" :> << 42, 42, 42 >> ) @@ ( "#3A3A3A" :> << 58, 58, 58 >> )
    @@ ( "#4A4A4A" :> << 74, 74, 74 >> ) @@ ( "#C0C0C0" :> << 192, 192, 192 >> )
    @@ ( "#FF0000" :> << 255, 0, 0 >> ) @@ ( "#0000FF" :> << 0, 0, 255 >> )
    @@ ( "#228B22" :> << 34, 139, 34 >> ) @@ ( "#F4A460" :> << 244, 164, 96 >> )
    @@ ( "#F0F0F0" :> << 240, 240, 240 >> ) @@ ( "#D3D3D3" :> << 211, 211, 211 >> )
    @@ ( "#FFD700" :> << 255, 215, 0 >> ) @@ ( "#1E90FF" :> << 30, 144, 255 >> )
    @@ ( "#E8D5B7" :> << 232, 213, 183 >> ) @@ ( "#8B4513" :> << 139, 69, 19 >> )
    @@ ( "#A9A9A9" :> << 169, 169, 169 >> )

\* An RGBA colour has its four channels in units of 1/(255*255), so that a
\* colormap entry (an interpolation between 8-bit stops over 255 steps) is
\* an integer.
\* mcolors.to_rgba of a hex string.
to_rgba(hex) ==
    LET c == HexRGB[hex]
    IN  << 255 * c[1], 255 * c[2], 255 * c[3], 255 * 255 >>

\* Whether LinearSegmentedColormap.from_list accepts the colour sequence.
ValidStops(colors) ==
    /\ Len(colors) >= 2
    /\ \A i \in 1..Len(colors) : colors[i] \in DOMAIN HexRGB

\* A plausible slip: the colormap entry taken as int(pos * 255).
cmap_sample_over255(colors, num, den) ==
    LET n == Len(colors)
        idx == (255 * num) \div den
        t == idx * (n - 1)
        j == IF t \div 255 > n - 2 THEN n - 2 ELSE t \div 255
        rem == t - 255 * j
        lo == HexRGB[colors[j + 1]]
        hi == HexRGB[colors[j + 2]]
        chan(k) == 255 * lo[k] + (hi[k] - lo[k]) * rem
    IN  << chan(1), chan(2), chan(3), 255 * 255 >>

\* cmap(pos) for the colormap from_list builds over `colors` (N = 256 entries,
\* entry i interpolating the equally spaced stops at i/255), sampled at the
\* position num/den in [0, 1]: entry int(pos * 256), the last one at pos = 1.
cmap_sample(colors, num, den) ==
    LET n == Len(colors)
        idx == IF num = den THEN 255 ELSE (256 * num) \div den
        t == idx * (n - 1)
        j == IF t \div 255 > n - 2 THEN n - 2 ELSE t \div 255
        rem == t - 255 * j
        lo == HexRGB[colors[j + 1]]
        hi == HexRGB[colors[j + 2]]
        chan(k) == 255 * lo[k] + (hi[k] - lo[k]) * rem
    IN  << chan(1), chan(2), chan(3), 255 * 255 >>

\* parse_color_config: (is_gradient, value)
parse_color_config(config) ==
    IF config.kind = "list"
    THEN << TRUE, Dict([ type |-> "gradient", colors |-> config.v,
                         direction |-> "vertical" ]) >>
    ELSE IF /\ config.kind = "dict"
            /\ "type" \in DOMAIN config.v
            /\ config.v.type = "gradient"
    THEN << TRUE, config >>
    ELSE << FALSE, config >>

\* params.get('colors', ['#000000', '#FFFFFF'])
gradient_colors(params) ==
    IF "colors" \in DOMAIN params.v THEN params.v.colors
    ELSE << "#000000", "#FFFFFF" >>

\* params.get('direction', 'vertical')
gradient_direction(params) ==
    IF "direction" \in DOMAIN params.v THEN params.v.direction
    ELSE "vertical"

---------------------------------------------------------------------------
(* Road classification and colouring *)

\* The highway tag of an edge after data.get('highway', 'unclassified') and
\* the reduction of a list to its first element.
edge_highway(data) ==
    LET highway == IF "highway" \in DOMAIN data THEN data.highway
                   ELSE Str("unclassified")
    IN  IF highway.kind = "list"
        THEN IF highway.v # << >> THEN Str(highway.v[1])
             ELSE Str("unclassified")
        ELSE highway

\* highway in [...]: only a string is found in a list of strings.
IsOneOf(highway, names) == highway.kind = "str" /\ highway.v \in names

\* A plausible slip: trunk roads classified with the motorways.
road_key_trunkAsMotorway(highway) ==
    IF IsOneOf(highway, { "motorway", "motorway_link", "trunk", "trunk_link" })
    THEN "road_motorway"
    ELSE IF IsOneOf(highway, { "primary", "primary_link" })
    THEN "road_primary"
    ELSE IF IsOneOf(highway, { "secondary", "secondary_link" })
    THEN "road_secondary"
    ELSE IF IsOneOf(highway, { "tertiary", "tertiary_link" })
    THEN "road_tertiary"
    ELSE IF IsOneOf(highway, { "residential", "living_street", "unclassified" })
    THEN "road_residential"
    ELSE "road_default"

\* The if-chain of get_edge_colors_by_type: the theme key of a highway tag.
road_key(highway) ==
    IF IsOneOf(highway, { "motorway", "motorway_link" })
    THEN "road_motorway"
    ELSE IF IsOneOf(highway, { "trunk", "trunk_link", "primary", "primary_link" })
    THEN "road_primary"
    ELSE IF IsOneOf(highway, { "secondary", "secondary_link" })
    THEN "road_secondary"
    ELSE IF IsOneOf(highway, { "tertiary", "tertiary_link" })
    THEN "road_tertiary"
    ELSE IF IsOneOf(highway, { "residential", "living_street", "unclassified" })
    THEN "road_residential"
    ELSE "road_default"

\* The if-chain of get_edge_widths_by_type, in tenths of a width unit.
road_width(highway) ==
    IF IsOneOf(highway, { "motorway", "motorway_link" }) THEN 12
    ELSE IF IsOneOf(highway, { "trunk", "trunk_link", "primary", "primary_link" })
    THEN 10
    ELSE IF IsOneOf(highway, { "secondary", "secondary_link" }) THEN 8
    ELSE IF IsOneOf(highway, { "tertiary", "tertiary_link" }) THEN 6
    ELSE 4

\* The bounds of the node coordinates (create_poster, and the fallback of
\* get_edge_colors_by_type): << >> when the graph has no nodes.
node_bounds(graph) ==
    LET ids == DOMAIN graph.nodes
        xs == { graph.nodes[n].x : n \in ids }
        ys == { graph.nodes[n].y : n \in ids }
    IN  IF ids = {} THEN << >>
        ELSE << SetMin(xs), SetMin(ys), SetMax(xs), SetMax(ys) >>

\* The bounds get_edge_colors_by_type works with.
effective_bounds(graph, bnds) ==
    IF bnds # << >> THEN bnds
    ELSE IF node_bounds(graph) # << >> THEN node_bounds(graph)
    ELSE << 0, 0, 1, 1 >>

\* The colour of one edge for the colour configuration `config`: the solid
\* value, or the gradient sampled at the edge's midpoint; '#000000' when the
\* sampling raises.
edge_color(config, graph, e, bnds) ==
    LET parsed == parse_color_config(config)
        params == parsed[2]
        b == effective_bounds(graph, bnds)
        width == IF b[3] - b[1] = 0 THEN 1 ELSE b[3] - b[1]
        height == IF b[4] - b[2] = 0 THEN 1 ELSE b[4] - b[2]
        u_node == graph.nodes[e.u]
        v_node == graph.nodes[e.v]
        \* pos = num / den, with the midpoint kept doubled
        num == IF gradient_direction(params) = "vertical"
               THEN (u_node.y + v_node.y) - 2 * b[2]
               ELSE (u_node.x + v_node.x) - 2 * b[1]
        den == IF gradient_direction(params) = "vertical"
               THEN 2 * height ELSE 2 * width
        clamped == IF num < 0 THEN 0 ELSE IF num > den THEN den ELSE num
        colors == gradient_colors(params)
    IN  IF ~ parsed[1] THEN to_rgba(params.v)
        ELSE IF ValidStops(colors) THEN cmap_sample(colors, clamped, den)
        ELSE to_rgba("#000000")

\* Whether LinearSegmentedColormap.from_list builds a colormap from the
\* colour sequence: it indexes colors[0] and converts every colour.
Constructible(colors) ==
    /\ Len(colors) >= 1
    /\ \A i \in 1..Len(colors) : colors[i] \in DOMAIN HexRGB

\* A plausible slip: the colormap built on every call.
get_cached_cmap_alwaysBuilds(st, request) ==
    LET colors == request.v
        cmap == [ serial |-> Len(st.built) + 1, colors |-> colors ]
    IN  IF Constructible(colors)
        THEN [ cache |-> [ c \in DOMAIN st.cache \cup { colors } |->
                            IF c = colors THEN cmap ELSE st.cache[c] ],
               built |-> Append(st.built, colors),
               calls |-> Append(st.calls, [ request |-> request,
                            raised |-> FALSE, cmap |-> << cmap >> ]) ]
        ELSE [ st EXCEPT !.calls = Append(st.calls, [ request |-> request,
                            raised |-> TRUE, cmap |-> << >> ]) ]

\* get_cached_cmap on the state st = [cache, built, calls]: a request is
\* [kind |-> "list" or "tuple", v |-> the colours]; a list is made a tuple,
\* the tuple is the key; a colormap is an object told apart by the serial
\* number of its construction.  When from_list raises nothing is stored.
get_cached_cmap(st, request) ==
    LET colors == request.v
        cmap == [ serial |-> Len(st.built) + 1, colors |-> colors ]
    IN  IF colors \in DOMAIN st.cache
        THEN [ st EXCEPT !.calls = Append(st.calls, [ request |-> request,
                            raised |-> FALSE, cmap |-> << st.cache[colors] >> ]) ]
        ELSE IF Constructible(colors)
        THEN [ cache |-> [ c \in DOMAIN st.cache \cup { colors } |->
                            IF c = colors THEN cmap ELSE st.cache[c] ],
               built |-> Append(st.built, colors),
               calls |-> Append(st.calls, [ request |-> request,
                            raised |-> FALSE, cmap |-> << cmap >> ]) ]
        ELSE [ st EXCEPT !.calls = Append(st.calls, [ request |-> request,
                            raised |-> TRUE, cmap |-> << >> ]) ]

\* The request get_edge_colors_by_type makes of get_cached_cmap for an edge
\* of colour configuration `config`, if any: the colours as the theme's list.
edge_cmap(config) ==
    LET parsed == parse_color_config(config)
    IN  IF parsed[1]
        THEN << [ kind |-> "list", v |-> gradient_colors(parsed[2]) ] >>
        ELSE << >>

\* THEME.get(key, '#3A3A3A')
road_config(theme, key) ==
    IF key \in DOMAIN theme THEN theme[key] ELSE Str("#3A3A3A")

\* get_edge_colors_by_type: the keys chosen and the colours appended.
edge_key_list(graph) ==
    [ i \in 1..Len(graph.edges) |->
        road_key(edge_highway(graph.edges[i].data)) ]

get_edge_colors_by_type(theme, graph, bnds) ==
    [ i \in 1..Len(graph.edges) |->
        edge_color(road_config(theme, edge_key_list(graph)[i]),
                   graph, graph.edges[i], bnds) ]

RECURSIVE cmaps_upto(_, _, _, _)
\* The colormap cache after get_edge_colors_by_type has gone through the
\* first n edges.
cmaps_upto(st, theme, graph, n) ==
    IF n = 0 THEN st
    ELSE LET before == cmaps_upto(st, theme, graph, n - 1)
             req == edge_cmap(road_config(theme, edge_key_list(graph)[n]))
         IN  IF req = << >> THEN before ELSE get_cached_cmap(before, req[1])

\* The colormaps get_edge_colors_by_type leaves in CMAP_CACHE.
cmaps_after(cache, built, calls, theme, graph) ==
    cmaps_upto([ cache |-> cache, built |-> built, calls |-> calls ],
               theme, graph, Len(graph.edges))

\* get_edge_widths_by_type
get_edge_widths_by_type(graph) ==
    [ i \in 1..Len(graph.edges) |->
        road_width(edge_highway(graph.edges[i].data)) ]

---------------------------------------------------------------------------
(* Themes used as inputs *)

RequiredKeys == { "name", "bg", "text", "gradient_color", "road_default" }

\* The value a palette gives to a key.
PaletteValue(p, k) ==
    CASE k = "name" -> Str(p)
      [] p = "light" -> Str("#C0C0C0")
      [] p = "dark" -> Str("#1A1A1A")
      [] p = "fade" ->
            IF k \in RequiredKeys THEN Str("#FFFFFF")
            ELSE List(<< "#000000", "#FFFFFF" >>)

Palettes == { "light", "dark", "fade" }

\* A theme holding the required keys and the keys of `extra`.
ThemeOf(extra, p) == [ k \in RequiredKeys \cup extra |-> PaletteValue(p, k) ]

---------------------------------------------------------------------------
(* SpecGate: get_enabled_features applied to a theme *)

GateThemes == { ThemeOf(S, p) : S \in SUBSET FeatureSet, p \in Palettes }

GateIdle == gtheme = ThemeOf({}, "light") /\ genabled = << >>

ParseIdle == pconfig = Str("#FFFFFF") /\ pparsed = << >>

\* The theme is given, not read from a file.
NoDoc == [ kind |-> "none", v |-> << >> ]

ThemeIdle == theme_doc = NoDoc /\ theme_loaded = "none"

NoGraph == [ nodes |-> << >>, edges |-> << >> ]

\* Every local feature variable None.
NoFeatures == [ f \in FeatureSet |-> << >> ]

NoArgs ==
    [ point |-> << 0, 0 >>, dist |-> 0, network_type |-> "", use_cache |-> FALSE ]

\* No run of create_poster has started.
RunIdle ==
    /\ pc = "idle"
    /\ args = NoArgs
    /\ enabled_features = get_enabled_features(ThemeOf({}, "light"))
    /\ cache_key = md5("")
    /\ cached_data = << >>
    /\ feat = NoFeatures
    /\ fetch_log = << >>
    /\ failed = {}
    /\ load_result = "none"
    /\ save_result = "none"
    /\ drawn = << >>
    /\ resolved = << >>
    /\ output = "none"
    /\ error = "none"
    /\ log = {}
    /\ runs = 0
    /\ prev = << >>

\* A working directory without a cache directory.
NoCache == cache_dir = FALSE /\ cache_files = << >>

PipeIdle == RunIdle /\ NoCache

RoadIdle ==
    /\ THEME = ThemeOf({}, "light")
    /\ G = NoGraph
    /\ bounds = << >>
    /\ edge_keys = << >>
    /\ edge_colors = << >>
    /\ edge_widths = << >>
    /\ CMAP_CACHE = EmptyDict
    /\ cmap_built = << >>
    /\ cmap_calls = << >>
    /\ rdone = {}

KeyIdle == kreq = << >> /\ kres = << >>

InitGate ==
    /\ gtheme \in GateThemes
    /\ genabled = << >>
    /\ ParseIdle /\ ThemeIdle
    /\ KeyIdle
    /\ RoadIdle
    /\ PipeIdle

DetectFeatures ==
    /\ genabled = << >>
    /\ genabled' = << get_enabled_features(gtheme) >>
    /\ UNCHANGED << gtheme, parseVars, themeVars, keyVars, roadVars, fsVars,
                    runVars >>

NextGate == DetectFeatures

SpecGate == InitGate /\ [][NextGate]_vars

---------------------------------------------------------------------------
(* SpecKey: get_cache_key applied to two requests *)

KeyExtras == { {}, {"water"}, {"parks"}, {"water", "parks"}, FeatureSet }

KeyThemes == { ThemeOf(S, p) : S \in KeyExtras, p \in { "light", "fade" } }

\* Latitudes and longitudes in 1e-7 degrees: 0 and 4 print alike, -4 prints
\* "-0.000000", 12 prints "0.000001".
KeyLats == { -4, 0, 4, 12 }
KeyLons == { 23522000, 23522004 }
KeyPoints == KeyLats \X KeyLons
KeyDists == { 5000, 29000 }
NetworkTypes == { "drive", "walk" }

KeyRequests ==
    [ theme : KeyThemes, point : KeyPoints, dist : KeyDists,
      network_type : NetworkTypes ]

InitKey ==
    /\ kreq \in KeyRequests \X KeyRequests
    /\ kres = << << >>, << >> >>
    /\ GateIdle /\ ParseIdle /\ ThemeIdle
    /\ RoadIdle
    /\ PipeIdle

\* What create_poster computes at lines 475 and 484 for one request.
KeyOf(r) ==
    LET enabled == get_enabled_features(r.theme)
    IN  [ enabled |-> enabled,
          key |-> get_cache_key(r.point, r.dist, r.network_type, enabled) ]

ComputeKey(i) ==
    /\ kres[i] = << >>
    /\ kres' = [ kres EXCEPT ![i] = << KeyOf(kreq[i]) >> ]
    /\ UNCHANGED << kreq, gateVars, parseVars, themeVars, roadVars, fsVars,
                    runVars >>

NextKey == \E i \in 1..2 : ComputeKey(i)

SpecKey == InitKey /\ [][NextKey]_vars

---------------------------------------------------------------------------
(* SpecRoad: get_edge_colors_by_type and get_edge_widths_by_type applied to
   a graph under a theme *)

MaxEdges == 2

HighwayNames ==
    { "motorway", "motorway_link", "trunk", "trunk_link", "primary",
      "primary_link", "secondary", "secondary_link", "tertiary",
      "tertiary_link", "residential", "living_street", "unclassified",
      "service" }

\* The data dicts of the edges: a string tag, a list tag, a tag that is
\* neither (a missing value read as NaN), and no tag at all.
EdgeDatas ==
    { [ highway |-> Str(h) ] : h \in HighwayNames }
    \cup { [ highway |-> List(l) ] :
            l \in { << >>, << "motorway", "residential" >>,
                    << "footway", "motorway" >> } }
    \cup { [ highway |-> [ kind |-> "float", v |-> "nan" ] ], EmptyDict }

RoadNodes ==
    << [ x |-> 0, y |-> 0 ], [ x |-> 10, y |-> 20 ], [ x |-> 4, y |-> 10 ] >>

\* Every tag on an edge across the bounds, and a motorway at the bottom and
\* at the top of them.
RoadEdges ==
    { [ u |-> 1, v |-> 2, data |-> d ] : d \in EdgeDatas }
    \cup { [ u |-> n, v |-> n, data |-> [ highway |-> Str("motorway") ] ] :
            n \in { 1, 2 } }

RECURSIVE SeqsUpTo(_, _)
\* The sequences over S of length at most n.
SeqsUpTo(S, n) ==
    IF n = 0 THEN { << >> }
    ELSE LET shorter == SeqsUpTo(S, n - 1)
         IN  shorter \cup { Append(q, e) : q \in shorter, e \in S }

RoadGraphs ==
    { [ nodes |-> RoadNodes, edges |-> es ] : es \in SeqsUpTo(RoadEdges, MaxEdges) }

RoadBase == [ k \in { "name", "bg", "text", "gradient_color" } |-> Str("#FFFFFF") ]

RoadSolid ==
    ( "road_motorway" :> Str("#0A0A0A") ) @@ ( "road_primary" :> Str("#1A1A1A") )
    @@ ( "road_secondary" :> Str("#2A2A2A") ) @@ ( "road_tertiary" :> Str("#0000FF") )
    @@ ( "road_residential" :> Str("#4A4A4A") ) @@ ( "road_default" :> Str("#FF0000") )

RoadKeySets ==
    { DOMAIN RoadSolid, { "road_default" }, { },
      { "road_motorway", "road_residential", "road_default" },
      { "road_primary", "road_secondary", "road_tertiary" } }

RoadGradients ==
    ( "road_motorway" :> List(<< "#000000", "#FFFFFF" >>) )
    @@ ( "road_primary" :>
            Dict([ type |-> "gradient", direction |-> "horizontal",
                   colors |-> << "#FF0000", "#FFFFFF", "#0000FF" >> ]) )
    @@ ( "road_residential" :> Dict([ type |-> "gradient" ]) )
    @@ ( "road_default" :> Str("#FF0000") )

RoadThemes ==
    { [ k \in K |-> RoadSolid[k] ] @@ RoadBase : K \in RoadKeySets }
    \cup { RoadGradients @@ RoadBase }

InitRoad ==
    /\ THEME \in RoadThemes
    /\ G \in RoadGraphs
    /\ bounds \in { << >>, node_bounds(G) }
    /\ edge_keys = << >>
    /\ edge_colors = << >>
    /\ edge_widths = << >>
    /\ CMAP_CACHE = EmptyDict
    /\ cmap_built = << >>
    /\ cmap_calls = << >>
    /\ rdone = {}
    /\ GateIdle /\ ParseIdle /\ ThemeIdle
    /\ KeyIdle
    /\ PipeIdle

\* edge_colors = get_edge_colors_by_type(G, bounds)
CallEdgeColors ==
    /\ "colors" \notin rdone
    /\ edge_keys' = edge_key_list(G)
    /\ edge_colors' = get_edge_colors_by_type(THEME, G, bounds)
    /\ LET after == cmaps_after(CMAP_CACHE, cmap_built, cmap_calls, THEME, G)
       IN  /\ CMAP_CACHE' = after.cache
           /\ cmap_built' = after.built
           /\ cmap_calls' = after.calls
    /\ rdone' = rdone \cup { "colors" }
    /\ UNCHANGED << THEME, G, bounds, edge_widths, gateVars, parseVars,
                    themeVars, keyVars, fsVars, runVars >>

\* edge_widths = get_edge_widths_by_type(G)
CallEdgeWidths ==
    /\ "widths" \notin rdone
    /\ edge_widths' = get_edge_widths_by_type(G)
    /\ rdone' = rdone \cup { "widths" }
    /\ UNCHANGED << THEME, G, bounds, edge_keys, edge_colors, CMAP_CACHE,
                    cmap_built, cmap_calls, gateVars, parseVars, themeVars,
                    keyVars, fsVars, runVars >>

NextRoad == CallEdgeColors \/ CallEdgeWidths

SpecRoad == InitRoad /\ [][NextRoad]_vars

---------------------------------------------------------------------------
(* Specification SpecSample: get_edge_colors_by_type sampling a gradient
   road_motorway along two motorway edges, under bounds given by the caller
   or taken from the nodes *)

SampleNodes ==
    << [ x |-> 0, y |-> 0 ], [ x |-> 10, y |-> 20 ], [ x |-> 4, y |-> 10 ],
       [ x |-> 7, y |-> 5 ] >>

SampleEdges ==
    { [ u |-> a, v |-> b, data |-> [ highway |-> Str("motorway") ] ] :
        a, b \in DOMAIN SampleNodes }

SampleGraphs ==
    { [ nodes |-> SampleNodes, edges |-> << e1, e2 >> ] : e1, e2 \in SampleEdges }

\* bounds: None, a box narrower than the nodes, a box of no height.
SampleBounds == { << >>, << 2, 5, 8, 15 >>, << 0, 10, 10, 10 >> }

SampleGradients ==
    { List(<< "#000000", "#FFFFFF" >>),
      Dict([ type |-> "gradient", direction |-> "horizontal",
             colors |-> << "#FF0000", "#0000FF" >> ]),
      Dict([ type |-> "gradient", direction |-> "vertical",
             colors |-> << "#FF0000", "#FFFFFF", "#0000FF" >> ]) }

SampleThemes ==
    { ( "road_motorway" :> g ) @@ ( "road_default" :> Str("#3A3A3A") ) @@ RoadBase :
        g \in SampleGradients }

InitSample ==
    /\ THEME \in SampleThemes
    /\ G \in SampleGraphs
    /\ bounds \in SampleBounds
    /\ edge_keys = << >>
    /\ edge_colors = << >>
    /\ edge_widths = << >>
    /\ CMAP_CACHE = EmptyDict
    /\ cmap_built = << >>
    /\ cmap_calls = << >>
    /\ rdone = {}
    /\ GateIdle /\ ParseIdle /\ ThemeIdle
    /\ KeyIdle
    /\ PipeIdle

SpecSample == InitSample /\ [][NextRoad]_vars

---------------------------------------------------------------------------
(* Specification SpecCmap: a sequence of calls of get_cached_cmap *)

MaxCalls == 3

\* Colour sequences: two orders of the same two colours, one colour, one
\* string that is no colour, none.
CmapColors ==
    { << "#000000", "#FFFFFF" >>, << "#FFFFFF", "#000000" >>, << "#FF0000" >>,
      << "#000000", "not a colour" >>, << >> }

CmapRequests ==
    { [ kind |-> k, v |-> c ] : k \in { "list", "tuple" }, c \in CmapColors }

InitCmap == RoadIdle /\ GateIdle /\ ParseIdle /\ ThemeIdle /\ KeyIdle /\ PipeIdle

\* get_cached_cmap(colors)
CallGetCachedCmap(request) ==
    /\ Len(cmap_calls) < MaxCalls
    /\ LET after == get_cached_cmap([ cache |-> CMAP_CACHE, built |-> cmap_built,
                                      calls |-> cmap_calls ], request)
       IN  /\ CMAP_CACHE' = after.cache
           /\ cmap_built' = after.built
           /\ cmap_calls' = after.calls
    /\ UNCHANGED << THEME, G, bounds, edge_keys, edge_colors, edge_widths,
                    rdone, gateVars, parseVars, themeVars, keyVars, fsVars,
                    runVars >>

NextCmap == \E request \in CmapRequests : CallGetCachedCmap(request)

SpecCmap == InitCmap /\ [][NextCmap]_vars

---------------------------------------------------------------------------
(* Specification SpecParse: parse_color_config applied to a theme value *)

MaxStops == 3

\* The values a theme's JSON can hold for a key: strings, lists of colours,
\* objects with and without the keys of a gradient, a number, null.
ParseDicts ==
    { EmptyDict, [ colors |-> << "#000000", "#FFFFFF" >> ],
      [ direction |-> "horizontal" ] }
    \cup { [ type |-> t ] : t \in { "gradient", "solid", "Gradient" } }
    \cup { [ type |-> t, colors |-> cs ] :
            t \in { "gradient", "solid" },
            cs \in { << >>, << "#FF0000" >>, << "#000000", "#FFFFFF" >> } }
    \cup { [ type |-> t, colors |-> << "#FF0000", "#0000FF" >>, direction |-> dir ] :
            t \in { "gradient", "linear" }, dir \in { "vertical", "horizontal" } }

ParseConfigs ==
    { Str(c) : c \in DOMAIN HexRGB \cup { "not a colour", "" } }
    \cup { List(l) : l \in SeqsUpTo({ "#000000", "#FFFFFF", "#FF0000" }, MaxStops) }
    \cup { Dict(d) : d \in ParseDicts }
    \cup { [ kind |-> "number", v |-> << >> ], [ kind |-> "null", v |-> << >> ] }

InitParse ==
    /\ pconfig \in ParseConfigs
    /\ pparsed = << >>
    /\ ThemeIdle
    /\ GateIdle
    /\ KeyIdle
    /\ RoadIdle
    /\ PipeIdle

\* is_gradient, params = parse_color_config(config)
CallParseColorConfig ==
    /\ pparsed = << >>
    /\ pparsed' = << parse_color_config(pconfig) >>
    /\ UNCHANGED << pconfig, themeVars, gateVars, keyVars, roadVars, fsVars,
                    runVars >>

NextParse == CallParseColorConfig

SpecParse == InitParse /\ [][NextParse]_vars

---------------------------------------------------------------------------
(* The cache files *)

\* The dataset tuple (G, water, parks, ..., airports) that is pickled.
Dataset(graph, features) == [ G |-> graph, feat |-> features ]

NoData == Dataset(NoGraph, NoFeatures)

\* A plausible slip: pickle.load outside the try block, so that a corrupted
\* file raises out of load_from_cache.
load_from_cache_noTry(files, key) ==
    IF key \in DOMAIN files
    THEN IF files[key].ok
         THEN [ raised |-> FALSE, data |-> << files[key].data >>, warned |-> FALSE ]
         ELSE [ raised |-> TRUE, data |-> << >>, warned |-> FALSE ]
    ELSE [ raised |-> FALSE, data |-> << >>, warned |-> FALSE ]

\* A plausible slip: the cache file looked up under a path that is never
\* written, so that every load misses.
load_from_cache_neverFound(files, key) ==
    [ raised |-> FALSE, data |-> << >>, warned |-> FALSE ]

\* load_from_cache: the unpickled data of an existing file, None (<< >>)
\* when there is no file, None and a warning when unpickling raises.
\* `raised` says whether an exception leaves the function.
load_from_cache(files, key) ==
    IF key \in DOMAIN files
    THEN IF files[key].ok
         THEN [ raised |-> FALSE, data |-> << files[key].data >>, warned |-> FALSE ]
         ELSE [ raised |-> FALSE, data |-> << >>, warned |-> TRUE ]
    ELSE [ raised |-> FALSE, data |-> << >>, warned |-> FALSE ]

\* What the operating system lets save_to_cache do: everything, or
\* os.makedirs raises, or open raises, or pickle.dump raises after open has
\* created (or truncated) the file.
SaveOutcomes == { "ok", "makedirs_raises", "open_raises", "dump_raises" }

\* save_to_cache: the directory and the files it leaves, and whether it
\* "saved", "warned" (the exception caught and printed) or "raised".
save_to_cache(dir, files, key, data, outcome) ==
    IF ~ dir /\ outcome = "makedirs_raises"
    THEN [ dir |-> dir, files |-> files, result |-> "raised" ]
    ELSE CASE outcome = "open_raises" ->
                [ dir |-> TRUE, files |-> files, result |-> "warned" ]
           [] outcome = "dump_raises" ->
                [ dir |-> TRUE,
                  files |-> (key :> [ ok |-> FALSE, data |-> NoData ]) @@ files,
                  result |-> "warned" ]
           [] OTHER ->
                [ dir |-> TRUE,
                  files |-> (key :> [ ok |-> TRUE, data |-> data ]) @@ files,
                  result |-> "saved" ]

---------------------------------------------------------------------------
(* Fetching *)

\* What a feature fetch can do: raise, or return a frame with these
\* geometry types.
Raises == [ raised |-> TRUE, geoms |-> << >> ]
Returns(geoms) == [ raised |-> FALSE, geoms |-> geoms ]

\* A plausible slip: no try/except around the feature fetch.
fetch_feature_noTry(outcome) ==
    [ value |-> IF outcome.raised THEN << >> ELSE << outcome.geoms >>,
      raised |-> outcome.raised ]

\* try: x = ox.features_from_point(...)  except: x = None
\* `raised` says whether an exception leaves the statement.
fetch_feature(outcome) ==
    [ value |-> IF outcome.raised THEN << >> ELSE << outcome.geoms >>,
      raised |-> FALSE ]

FeatureIndex(f) == CHOOSE i \in 1..Len(FeatureNames) : FeatureNames[i] = f

\* A plausible slip: the dataset saved whether or not use_cache is set.
next_step_alwaysSaves(i, enabled, use_cache) ==
    LET later == { j \in (i + 1)..Len(FeatureNames) : enabled[FeatureNames[j]] }
    IN  IF later # {} THEN "fetch_" \o FeatureNames[SetMin(later)]
        ELSE "save"

\* The step after the fetch block number i (0: the street network): the
\* next enabled feature's block, or the code after the with statement.
next_step(i, enabled, use_cache) ==
    LET later == { j \in (i + 1)..Len(FeatureNames) : enabled[FeatureNames[j]] }
    IN  IF later # {} THEN "fetch_" \o FeatureNames[SetMin(later)]
        ELSE IF use_cache THEN "save"
        ELSE "render"

---------------------------------------------------------------------------
(* Drawing *)

\* gdf is not None and not gdf.empty
Present(gdf) == gdf # << >> /\ gdf[1] # << >>

\* A plausible slip: the frame handed on unfiltered.
filter_geom_keepsAll(gdf, geom_types) == gdf

\* filter_geom
filter_geom(gdf, geom_types) ==
    IF ~ Present(gdf) THEN gdf
    ELSE LET keep(t) == t \in geom_types IN << SelectSeq(gdf[1], keep) >>

area_features == { "Polygon", "MultiPolygon" }

\* The features whose frame goes through filter_geom (lines 645-650).
AreaFeatureNames == { "water", "parks", "forest", "beach", "education", "airport" }

Layer(name, zorder, geoms) == [ layer |-> name, zorder |-> zorder, geoms |-> geoms ]

\* Whether matplotlib takes the theme value as one colour.
IsColor(config) == config.kind = "str" /\ config.v \in DOMAIN HexRGB

\* THEME.get(key, fallback)
theme_get(theme, key, fallback) ==
    IF key \in DOMAIN theme THEN theme[key] ELSE Str(fallback)

\* What a drawing step leaves: the layers added to the figure, the theme keys
\* whose colour it resolved, and whether it raised.
Step(layers, keys, raised) ==
    [ layers |-> layers, resolved |-> keys, raised |-> raised ]

\* geoms_to_path: None (FALSE) when no polygon gives a vertex.
geoms_to_path(geoms) ==
    \E i \in 1..Len(geoms) : geoms[i] \in { "Polygon", "MultiPolygon" }

\* plot_feature: nothing for a missing or empty frame; else the colour of
\* theme_key is resolved and the frame is drawn at the given z-order (in
\* tenths), solid or as a gradient image clipped to its polygons.  A value
\* that is no colour, or gradient stops no colormap can be made and sampled
\* from, raise.
plot_feature(theme, gdf, theme_key, fallback_color, zorder) ==
    IF ~ Present(gdf) THEN Step(<< >>, << >>, FALSE)
    ELSE LET config == theme_get(theme, theme_key, fallback_color)
             parsed == parse_color_config(config)
         IN  IF ~ parsed[1]
             THEN IF IsColor(config)
                  THEN Step(<< Layer(theme_key, zorder, gdf[1]) >>,
                            << theme_key >>, FALSE)
                  ELSE Step(<< >>, << theme_key >>, TRUE)
             ELSE IF ~ geoms_to_path(gdf[1])
             THEN Step(<< >>, << theme_key >>, FALSE)
             ELSE IF ValidStops(gradient_colors(parsed[2]))
             THEN Step(<< Layer(theme_key, zorder, gdf[1]) >>,
                       << theme_key >>, FALSE)
             ELSE Step(<< >>, << theme_key >>, TRUE)

\* The frames plotted directly (coastline, stadiums, worship, railway):
\* guarded by "is not None and not empty", coloured by THEME.get.
plot_direct(theme, gdf, theme_key, fallback_color, zorder) ==
    IF ~ Present(gdf) THEN Step(<< >>, << >>, FALSE)
    ELSE IF IsColor(theme_get(theme, theme_key, fallback_color))
    THEN Step(<< Layer(theme_key, zorder, gdf[1]) >>, << theme_key >>, FALSE)
    ELSE Step(<< >>, << theme_key >>, TRUE)

\* A step that reads THEME[key] and draws the named layers with that colour.
plot_with(theme, key, names, zorder) ==
    IF key \in DOMAIN theme /\ IsColor(theme[key])
    THEN Step([ i \in 1..Len(names) |-> Layer(names[i], zorder, << >>) ],
              << >>, FALSE)
    ELSE Step(<< >>, << >>, TRUE)

\* The z-order of the road edges (in tenths).  The call of ox.plot_graph
\* passes none: the library's own value applies, which osmnx sets to 1 for
\* the edges; 40 stands for a library that would stack them above the
\* railways.
PlotGraphZorders == { 10, 40 }

\* Lines 616-763 of create_poster as drawing steps, in call order: the
\* figure with THEME['bg'], the feature layers, the roads, the fades, the
\* text, and savefig.
draw_steps(theme, features, road_zorder) ==
    LET water == filter_geom(features["water"], area_features)
        parks == filter_geom(features["parks"], area_features)
        forests == filter_geom(features["forest"], area_features)
        beaches == filter_geom(features["beach"], area_features)
        education == filter_geom(features["education"], area_features)
        airports == filter_geom(features["airport"], area_features)
    IN  << plot_with(theme, "bg", << >>, 0),
           plot_direct(theme, features["coastline"], "coastline", "#1E90FF", 5),
           plot_feature(theme, forests, "forest", "#228B22", 10),
           plot_feature(theme, beaches, "beach", "#F4A460", 12),
           plot_feature(theme, water, "water", "#C0C0C0", 15),
           plot_feature(theme, parks, "parks", "#F0F0F0", 20),
           plot_feature(theme, airports, "airport", "#D3D3D3", 22),
           plot_feature(theme, education, "education", "#FFD700", 23),
           plot_direct(theme, features["stadiums"], "stadiums", "#E8D5B7", 30),
           plot_direct(theme, features["worship"], "worship", "#8B4513", 30),
           plot_direct(theme, features["railway"], "railway", "#A9A9A9", 35),
           plot_with(theme, "bg", << "roads" >>, road_zorder),
           plot_with(theme, "gradient_color", << "fade_bottom", "fade_top" >>, 100),
           plot_with(theme, "text",
                     << "text_city", "text_country", "text_coords", "text_rule" >>,
                     110),
           plot_with(theme, "bg", << >>, 0) >>

\* The name of drawing step i, for the error it raises.
StepNames ==
    << "THEME['bg']", "plot_coastline", "plot_forest", "plot_beach",
       "plot_water", "plot_parks", "plot_airport", "plot_education",
       "plot_stadiums", "plot_worship", "plot_railway", "plot_graph",
       "THEME['gradient_color']", "THEME['text']", "savefig" >>

RECURSIVE draw_upto(_, _)
\* The figure after the first n drawing steps, stopped by the first that
\* raises: [drawn, resolved, error].
draw_upto(steps, n) ==
    IF n = 0 THEN [ drawn |-> << >>, resolved |-> << >>, error |-> "none" ]
    ELSE LET before == draw_upto(steps, n - 1)
         IN  IF before.error # "none" THEN before
             ELSE [ drawn |-> before.drawn \o steps[n].layers,
                    resolved |-> before.resolved \o steps[n].resolved,
                    error |-> IF steps[n].raised THEN StepNames[n] ELSE "none" ]

\* Lines 616-763 of create_poster: the layers drawn, in call order, each with
\* the z-order it is given, and the step that raised, if any.
draw_layers(theme, features, road_zorder) ==
    LET steps == draw_steps(theme, features, road_zorder)
    IN  draw_upto(steps, Len(steps))

---------------------------------------------------------------------------
(* Spec: runs of the program, one after the other, over one cache
   directory *)

MaxRuns == 2

PipeThemes ==
    { ThemeOf({ "water", "railway" }, "light"),
      ThemeOf({ "water", "railway" }, "dark"),
      ThemeOf({ "parks" }, "fade") }

\* Two points that print alike with six decimals.
PipePoints == { << 485660000, 23522000 >>, << 485660004, 23522000 >> }

PipeArgs ==
    [ point : PipePoints, dist : { 29000 }, network_type : { "drive" },
      use_cache : BOOLEAN ]

StreetGraph ==
    [ nodes |-> RoadNodes,
      edges |-> << [ u |-> 1, v |-> 2, data |-> [ highway |-> Str("motorway") ] ],
                   [ u |-> 2, v |-> 3, data |-> EmptyDict ] >> ]

StreetGraphs == { StreetGraph }

FetchOutcomes == { Raises, Returns(<< >>), Returns(<< "Point", "Polygon" >>) }

Init ==
    /\ PipeIdle
    /\ RoadIdle
    /\ GateIdle /\ ParseIdle /\ ThemeIdle
    /\ KeyIdle

\* What the next run is told about the run that ends.
RunSummary ==
    [ point |-> args.point, dist |-> args.dist,
      network_type |-> args.network_type, enabled |-> enabled_features,
      use_cache |-> args.use_cache, completed |-> pc = "done",
      key |-> cache_key,
      stored |-> load_result = "hit" \/ save_result = "saved" ]

\* A run of the program with theme `theme`: THEME is set, create_poster is
\* entered and runs up to its first fetch, or to the drawing on a cache hit
\* (lines 471-501).
StartRender(theme, a) ==
    /\ pc \in { "idle", "done", "aborted" }
    /\ runs < MaxRuns
    /\ runs' = runs + 1
    /\ prev' = IF pc = "idle" THEN << >> ELSE << RunSummary >>
    /\ THEME' = theme
    /\ args' = a
    /\ LET enabled == get_enabled_features(theme)
           key == get_cache_key(a.point, a.dist, a.network_type, enabled)
           loaded == IF a.use_cache THEN load_from_cache(cache_files, key)
                     ELSE [ raised |-> FALSE, data |-> << >>, warned |-> FALSE ]
       IN  /\ enabled_features' = enabled
           /\ cache_key' = key
           /\ cached_data' = loaded.data
           /\ load_result' =
                IF ~ a.use_cache THEN "none"
                ELSE IF key \notin DOMAIN cache_files THEN "miss"
                ELSE IF cache_files[key].ok THEN "hit"
                ELSE "corrupt"
           /\ log' = IF loaded.warned THEN { "Cache corrupted, will re-download" }
                     ELSE {}
           /\ error' = IF loaded.raised THEN "load_from_cache" ELSE "none"
           /\ pc' = IF loaded.raised THEN "aborted"
                    ELSE IF loaded.data # << >> THEN "render"
                    ELSE "fetch_street"
           /\ G' = IF loaded.data # << >> THEN loaded.data[1].G ELSE NoGraph
           /\ feat' = IF loaded.data # << >> THEN loaded.data[1].feat
                      ELSE NoFeatures
    /\ fetch_log' = << >>
    /\ failed' = {}
    /\ save_result' = "none"
    /\ drawn' = << >>
    /\ resolved' = << >>
    /\ output' = "none"
    /\ bounds' = << >>
    /\ edge_keys' = << >>
    /\ edge_colors' = << >>
    /\ edge_widths' = << >>
    /\ CMAP_CACHE' = EmptyDict
    /\ cmap_built' = << >>
    /\ cmap_calls' = << >>
    /\ rdone' = {}
    /\ UNCHANGED << fsVars, gateVars, parseVars, themeVars, keyVars >>

\* ox.graph_from_point returns (line 506).
FetchStreetOk(g) ==
    /\ pc = "fetch_street"
    /\ G' = g
    /\ fetch_log' = Append(fetch_log, "street")
    /\ pc' = next_step(0, enabled_features, args.use_cache)
    /\ UNCHANGED << THEME, bounds, edge_keys, edge_colors, edge_widths,
                    CMAP_CACHE, cmap_built, cmap_calls, rdone, args,
                    enabled_features, cache_key, cached_data, feat, failed,
                    load_result, save_result, drawn, resolved, output, error,
                    log, runs, prev, fsVars, gateVars, parseVars, themeVars,
                    keyVars >>

\* A plausible slip: the street fetch wrapped like the feature fetches, the
\* run going on without a graph.
FetchStreetFails_goesOn ==
    /\ pc = "fetch_street"
    /\ fetch_log' = Append(fetch_log, "street")
    /\ error' = "graph_from_point"
    /\ pc' = next_step(0, enabled_features, args.use_cache)
    /\ UNCHANGED << roadVars, args, enabled_features, cache_key, cached_data,
                    feat, failed, load_result, save_result, drawn, resolved,
                    output, log, runs, prev, fsVars, gateVars, parseVars,
                    themeVars, keyVars >>

\* ox.graph_from_point raises: the exception leaves create_poster.
FetchStreetFails ==
    /\ pc = "fetch_street"
    /\ fetch_log' = Append(fetch_log, "street")
    /\ error' = "graph_from_point"
    /\ pc' = "aborted"
    /\ UNCHANGED << roadVars, args, enabled_features, cache_key, cached_data,
                    feat, failed, load_result, save_result, drawn, resolved,
                    output, log, runs, prev, fsVars, gateVars, parseVars,
                    themeVars, keyVars >>

\* The fetch block of the enabled feature f (lines 510-607).
FetchFeature(f, outcome) ==
    /\ pc = "fetch_" \o f
    /\ LET r == fetch_feature(outcome) IN
        /\ feat' = [ feat EXCEPT ![f] = r.value ]
        /\ error' = IF r.raised THEN "features_from_point" ELSE error
        /\ pc' = IF r.raised THEN "aborted"
                 ELSE next_step(FeatureIndex(f), enabled_features, args.use_cache)
    /\ fetch_log' = Append(fetch_log, f)
    /\ failed' = IF outcome.raised THEN failed \cup { f } ELSE failed
    /\ UNCHANGED << roadVars, args, enabled_features, cache_key, cached_data,
                    load_result, save_result, drawn, resolved, output, log,
                    runs, prev, fsVars, gateVars, parseVars, themeVars,
                    keyVars >>

\* if use_cache: save_to_cache(cache_key, cache_data) (lines 611-614).
SaveCache(outcome) ==
    /\ pc = "save"
    /\ outcome = "makedirs_raises" => ~ cache_dir
    /\ LET r == save_to_cache(cache_dir, cache_files, cache_key,
                              Dataset(G, feat), outcome)
       IN  /\ cache_dir' = r.dir
           /\ cache_files' = r.files
           /\ save_result' = r.result
           /\ log' = IF r.result = "warned" THEN log \cup { "Could not save cache" }
                     ELSE log
           /\ error' = IF r.result = "raised" THEN "makedirs" ELSE error
           /\ pc' = IF r.result = "raised" THEN "aborted" ELSE "render"
    /\ UNCHANGED << roadVars, args, enabled_features, cache_key, cached_data,
                    feat, fetch_log, failed, load_result, drawn, resolved,
                    output, runs, prev, gateVars, parseVars, themeVars,
                    keyVars >>

\* The drawing and the saving of the figure (lines 616-765): the output is
\* written by savefig at the end, unless a step before it raised.
Render(road_zorder) ==
    /\ pc = "render"
    /\ bounds' = node_bounds(G)
    /\ LET fig == draw_layers(THEME, feat, road_zorder)
           roads == fig.error \notin
                        { "THEME['bg']" } \cup { "plot_" \o f : f \in FeatureSet }
       IN  /\ drawn' = fig.drawn
           /\ resolved' = fig.resolved
           /\ error' = fig.error
           /\ output' = IF fig.error = "none" THEN "written" ELSE "none"
           /\ pc' = IF fig.error = "none" THEN "done" ELSE "aborted"
           /\ IF roads
              THEN LET after == cmaps_after(CMAP_CACHE, cmap_built, cmap_calls,
                                            THEME, G)
                   IN  /\ edge_keys' = edge_key_list(G)
                       /\ edge_colors' =
                            get_edge_colors_by_type(THEME, G, node_bounds(G))
                       /\ edge_widths' = get_edge_widths_by_type(G)
                       /\ CMAP_CACHE' = after.cache
                       /\ cmap_built' = after.built
                       /\ cmap_calls' = after.calls
                       /\ rdone' = { "colors", "widths" }
              ELSE UNCHANGED << edge_keys, edge_colors, edge_widths, CMAP_CACHE,
                                cmap_built, cmap_calls, rdone >>
    /\ UNCHANGED << THEME, G, args, enabled_features, cache_key, cached_data,
                    feat, fetch_log, failed, load_result, save_result, log,
                    runs, prev, fsVars, gateVars, parseVars, themeVars,
                    keyVars >>

Next ==
    \/ \E theme \in PipeThemes, a \in PipeArgs : StartRender(theme, a)
    \/ \E g \in StreetGraphs : FetchStreetOk(g)
    \/ FetchStreetFails
    \/ \E f \in FeatureSet, outcome \in FetchOutcomes : FetchFeature(f, outcome)
    \/ \E outcome \in SaveOutcomes : SaveCache(outcome)
    \/ \E road_zorder \in PlotGraphZorders : Render(road_zorder)

Spec == Init /\ [][Next]_vars

---------------------------------------------------------------------------
(* Specification SpecDraw: runs that find in the cache a dataset an earlier
   run left there, with every kind of frame for the area features, under a
   theme whose colours are all usable and under one with two values that
   cannot be drawn *)

\* Frames: None, an empty frame, points and lines only, a mixed frame.
DrawFrames ==
    { << >>, << << >> >>, << << "Point", "LineString" >> >>,
      << << "Point", "Polygon", "MultiPolygon" >> >> }

DrawFramesShort == { << << "Point" >> >>, << << "MultiPolygon", "LineString" >> >> }

DrawVaried == { "water", "parks", "beach" }

DrawDatasets ==
    { Dataset(StreetGraph,
              [ f \in FeatureSet |->
                    IF f \in DrawVaried THEN a[f]
                    ELSE IF f \in AreaFeatureNames THEN b[f]
                    ELSE << >> ]) :
        a \in [ DrawVaried -> DrawFrames ],
        b \in [ AreaFeatureNames \ DrawVaried -> DrawFramesShort ] }

\* Solid and gradient colours for the six area features.
DrawThemeUsable ==
    [ ThemeOf(AreaFeatureNames, "light") EXCEPT
        !["parks"] = List(<< "#000000", "#FFFFFF" >>),
        !["forest"] = Dict([ type |-> "gradient", direction |-> "horizontal",
                             colors |-> << "#FFFFFF", "#0000FF" >> ]) ]

\* The same with a beach value that is no colour (a mapping without the
\* gradient tag) and an education gradient of one stop.
DrawThemeUnusable ==
    [ DrawThemeUsable EXCEPT
        !["beach"] = Dict([ colors |-> << "#000000", "#FFFFFF" >> ]),
        !["education"] = Dict([ type |-> "gradient", colors |-> << "#000000" >> ]) ]

DrawThemes == { DrawThemeUsable, DrawThemeUnusable }

DrawArgs ==
    [ point |-> << 485660000, 23522000 >>, dist |-> 29000,
      network_type |-> "drive", use_cache |-> TRUE ]

DrawKey ==
    get_cache_key(DrawArgs.point, DrawArgs.dist, DrawArgs.network_type,
                  get_enabled_features(DrawThemeUsable))

InitDraw ==
    /\ RunIdle
    /\ RoadIdle
    /\ GateIdle /\ ParseIdle /\ ThemeIdle
    /\ KeyIdle
    /\ cache_dir = TRUE
    /\ \E d \in DrawDatasets :
            cache_files = [ k \in { DrawKey } |-> [ ok |-> TRUE, data |-> d ] ]

NextDraw ==
    \/ \E theme \in DrawThemes : StartRender(theme, DrawArgs)
    \/ \E road_zorder \in PlotGraphZorders : Render(road_zorder)

SpecDraw == InitDraw /\ [][NextDraw]_vars

---------------------------------------------------------------------------
(* Specification SpecTheme: main loads the theme from a file, then runs
   create_poster under it *)

\* The keys the drawing reads with THEME[...], and road_default.
RequiredFour == { "bg", "text", "gradient_color", "road_default" }

\* The theme load_theme returns when the file does not exist.
EmbeddedDefault ==
    ( "name" :> Str("Feature-Based Shading") ) @@ ( "bg" :> Str("#FFFFFF") )
    @@ ( "text" :> Str("#000000") ) @@ ( "gradient_color" :> Str("#FFFFFF") )
    @@ ( "water" :> Str("#C0C0C0") ) @@ ( "parks" :> Str("#F0F0F0") )
    @@ ( "road_motorway" :> Str("#0A0A0A") ) @@ ( "road_primary" :> Str("#1A1A1A") )
    @@ ( "road_secondary" :> Str("#2A2A2A") ) @@ ( "road_tertiary" :> Str("#3A3A3A") )
    @@ ( "road_residential" :> Str("#4A4A4A") ) @@ ( "road_default" :> Str("#3A3A3A") )

\* Theme files: none, one that is not JSON, JSON that is not an object, and
\* objects with the water key that lack none, one or all of the four keys.
ThemeDocs ==
    { [ kind |-> "missing", v |-> << >> ], [ kind |-> "invalid", v |-> << >> ],
      List(<< "#000000", "#FFFFFF" >>) }
    \cup { Dict([ k \in (RequiredKeys \cup { "water" }) \ M |-> PaletteValue("light", k) ]) :
            M \in { {}, RequiredFour } \cup { { k } : k \in RequiredFour } }

\* load_theme: the embedded default when there is no file, else what
\* json.load gives; json.load raises on a file that is not JSON, and
\* theme.get raises on a value that is not an object.
load_theme(doc) ==
    CASE doc.kind = "missing" -> [ raised |-> FALSE, theme |-> EmbeddedDefault ]
      [] doc.kind = "dict" -> [ raised |-> FALSE, theme |-> doc.v ]
      [] OTHER -> [ raised |-> TRUE, theme |-> EmptyDict ]

ThemeArgs ==
    [ point : { << 485660000, 23522000 >> }, dist : { 29000 },
      network_type : { "drive" }, use_cache : BOOLEAN ]

InitTheme ==
    /\ theme_doc \in ThemeDocs
    /\ theme_loaded = "none"
    /\ THEME = EmptyDict
    /\ G = NoGraph
    /\ bounds = << >>
    /\ edge_keys = << >>
    /\ edge_colors = << >>
    /\ edge_widths = << >>
    /\ CMAP_CACHE = EmptyDict
    /\ cmap_built = << >>
    /\ cmap_calls = << >>
    /\ rdone = {}
    /\ PipeIdle
    /\ GateIdle
    /\ ParseIdle
    /\ KeyIdle

\* THEME = load_theme(args.theme) in main (line 901), outside the try.
LoadTheme ==
    /\ theme_loaded = "none"
    /\ LET loaded == load_theme(theme_doc)
       IN  /\ theme_loaded' = IF loaded.raised THEN "raised" ELSE "ok"
           /\ THEME' = loaded.theme
    /\ UNCHANGED << theme_doc, G, bounds, edge_keys, edge_colors, edge_widths,
                    CMAP_CACHE, cmap_built, cmap_calls, rdone, gateVars,
                    parseVars, keyVars, fsVars, runVars >>

\* create_poster called by main under the loaded theme (line 908).
StartLoaded(a) == theme_loaded = "ok" /\ StartRender(THEME, a)

NextTheme ==
    \/ LoadTheme
    \/ \E a \in ThemeArgs : StartLoaded(a)
    \/ \E g \in StreetGraphs : FetchStreetOk(g)
    \/ FetchStreetFails
    \/ \E f \in FeatureSet, outcome \in FetchOutcomes : FetchFeature(f, outcome)
    \/ \E outcome \in SaveOutcomes : SaveCache(outcome)
    \/ \E road_zorder \in PlotGraphZorders : Render(road_zorder)

SpecTheme == InitTheme /\ [][NextTheme]_vars

---------------------------------------------------------------------------
(* Claims about get_enabled_features and get_cache_key *)

\* The feature keys a theme holds.
FeatureKeysOf(theme) == DOMAIN theme \cap FeatureSet

\* C7: get_enabled_features maps each of the ten feature names to TRUE iff
\* that key is present in the theme, whatever the key's value; a theme whose
\* only feature key is water gives water = TRUE and the nine others FALSE.
C7_EnabledIffKeyPresent ==
    genabled # << >> =>
        LET enabled == genabled[1] IN
        /\ DOMAIN enabled = FeatureSet
        /\ Cardinality(DOMAIN enabled) = 10
        /\ \A f \in FeatureSet : enabled[f] = (f \in DOMAIN gtheme)
        /\ FeatureKeysOf(gtheme) = { "water" } =>
                enabled = [ f \in FeatureSet |-> f = "water" ]

\* C7 witness: a theme whose only feature key is water, with a gradient
\* value, has been gated.
C7_Witness ==
    /\ genabled # << >>
    /\ FeatureKeysOf(gtheme) = { "water" }
    /\ gtheme["water"].kind = "list"
    /\ genabled[1]["water"]
    /\ ~ genabled[1]["parks"]

KeyBothDone == kres[1] # << >> /\ kres[2] # << >>

SameEnabled == kres[1][1].enabled = kres[2][1].enabled
SameKey == kres[1][1].key = kres[2][1].key
SameRest ==
    /\ kreq[1].point = kreq[2].point
    /\ kreq[1].dist = kreq[2].dist
    /\ kreq[1].network_type = kreq[2].network_type

\* C2: two requests with the same point, radius, network type and
\* enabled-feature set get the same key, and two themes with the same key set
\* (differing only in their colour values) get the same key.
C2_SameInputsSameKey ==
    KeyBothDone /\ SameRest =>
        /\ SameEnabled => SameKey
        /\ DOMAIN kreq[1].theme = DOMAIN kreq[2].theme => SameKey

\* C2 witness: two themes with the same feature keys and different colour
\* values were keyed alike.
C2_Witness ==
    /\ KeyBothDone
    /\ SameRest
    /\ kreq[1].theme # kreq[2].theme
    /\ FeatureKeysOf(kreq[1].theme) = { "water", "parks" }
    /\ FeatureKeysOf(kreq[2].theme) = { "water", "parks" }
    /\ SameKey

\* The number of components (point, radius, network type, feature set) in
\* which the two requests differ.
B2N(b) == IF b THEN 1 ELSE 0
DiffCount ==
    B2N(kreq[1].point # kreq[2].point)
    + B2N(kreq[1].dist # kreq[2].dist)
    + B2N(kreq[1].network_type # kreq[2].network_type)
    + B2N(~ SameEnabled)

\* A coordinate as the key sees it: its sign and its magnitude in 1e-6
\* degrees, rounded.
Micro(x7) == << x7 < 0, (Abs(x7) + 5) \div 10 >>
SamePrintedPoint ==
    /\ Micro(kreq[1].point[1]) = Micro(kreq[2].point[1])
    /\ Micro(kreq[1].point[2]) = Micro(kreq[2].point[2])

DiffCountPrinted ==
    B2N(~ SamePrintedPoint)
    + B2N(kreq[1].dist # kreq[2].dist)
    + B2N(kreq[1].network_type # kreq[2].network_type)
    + B2N(~ SameEnabled)

\* C3 as stated: two inputs that differ in exactly one component get
\* different keys.  Two points 4e-7 degrees apart refute it.
C3_AnyOneChangeChangesKey ==
    KeyBothDone /\ DiffCount = 1 => ~ SameKey

\* C3 amended: two inputs that differ in exactly one of the radius, the
\* network type, the enabled-feature set, or the point as printed with six
\* decimals get different keys; points that print alike do not change the
\* key.
C3_OneChangeChangesKey ==
    KeyBothDone =>
        /\ DiffCountPrinted = 1 => ~ SameKey
        /\ DiffCountPrinted = 0 => SameKey

\* C3 witness: the second request enables one more feature category (parks)
\* and nothing else differs; the keys differ.
C3_Witness ==
    /\ KeyBothDone
    /\ SameRest
    /\ FeatureKeysOf(kreq[1].theme) = { "water" }
    /\ FeatureKeysOf(kreq[2].theme) = { "water", "parks" }
    /\ ~ SameKey

---------------------------------------------------------------------------
(* Claims about road classification and colouring *)

\* The classification table: the class of a highway name.
ClassOfName(name) ==
    CASE name \in { "motorway", "motorway_link" } -> "motorway"
      [] name \in { "trunk", "trunk_link", "primary", "primary_link" } -> "primary"
      [] name \in { "secondary", "secondary_link" } -> "secondary"
      [] name \in { "tertiary", "tertiary_link" } -> "tertiary"
      [] name \in { "residential", "living_street", "unclassified" } -> "residential"
      [] OTHER -> "default"

\* The class the table gives an edge; `absent` is the class of an edge with
\* no highway tag.
ClassOfData(data, absent) ==
    IF "highway" \notin DOMAIN data THEN absent
    ELSE LET t == data.highway IN
         CASE t.kind = "str" -> ClassOfName(t.v)
           [] t.kind = "list" ->
                IF t.v = << >> THEN ClassOfName("unclassified")
                ELSE ClassOfName(t.v[1])
           [] OTHER -> "default"

RoadClasses ==
    { "motorway", "primary", "secondary", "tertiary", "residential", "default" }

\* widthFor, in tenths.
WidthOfClass(c) ==
    CASE c = "motorway" -> 12
      [] c = "primary" -> 10
      [] c = "secondary" -> 8
      [] c = "tertiary" -> 6
      [] OTHER -> 4

RoadBothDone == rdone = { "colors", "widths" }

\* Every edge got the key and the width of the class that ClassOfData gives
\* it, with `absent` the class of an untagged edge.
ClassifiedBy(absent) ==
    /\ Len(edge_keys) = Len(G.edges)
    /\ Len(edge_widths) = Len(G.edges)
    /\ \A i \in 1..Len(G.edges) :
        LET c == ClassOfData(G.edges[i].data, absent) IN
        /\ c \in RoadClasses
        /\ edge_keys[i] = "road_" \o c
        /\ edge_widths[i] = WidthOfClass(c)

\* C8 as stated: every highway tag maps to exactly one class by the table,
\* unknown and absent tags mapping to default.  An edge without a highway
\* tag refutes it: it is classified residential.
C8_AbsentTagIsDefault == RoadBothDone => ClassifiedBy("default")

\* C8 amended: every highway tag (a string, a sequence read by its first
\* element, an empty sequence, no tag) maps to exactly one class by the
\* table; unknown tags map to default, and an absent tag, like an empty
\* sequence, is read as "unclassified" and maps to residential.
C8_ClassificationTotal == RoadBothDone => ClassifiedBy("residential")

\* C8 witness: an untagged edge and an edge tagged with a list were
\* classified residential and by the list's first element.
C8_Witness ==
    /\ RoadBothDone
    /\ Len(G.edges) = 2
    /\ G.edges[1].data = EmptyDict
    /\ G.edges[2].data = [ highway |-> List(<< "motorway", "residential" >>) ]
    /\ edge_keys = << "road_residential", "road_motorway" >>
    /\ edge_widths = << 4, 12 >>

\* C9: an edge's colour comes from the theme key road_<class> when the theme
\* has it, and otherwise from the theme's road_default value.  The code
\* falls back to the constant '#3A3A3A' instead.
C9_FallbackIsRoadDefault ==
    "colors" \in rdone /\ "road_default" \in DOMAIN THEME =>
        \A i \in 1..Len(G.edges) :
            LET key == edge_keys[i]
                config == IF key \in DOMAIN THEME THEN THEME[key]
                          ELSE THEME["road_default"]
            IN  edge_colors[i] = edge_color(config, G, G.edges[i], bounds)

---------------------------------------------------------------------------
(* Claims about the runs of create_poster *)

\* The run in progress asks for what the previous run asked for.
SameRequestAsPrev ==
    /\ prev # << >>
    /\ prev[1].point = args.point
    /\ prev[1].dist = args.dist
    /\ prev[1].network_type = args.network_type
    /\ prev[1].enabled = enabled_features

\* A run with use_cache that follows a completed run with use_cache for the
\* same request.
SecondRender ==
    /\ pc # "idle"
    /\ args.use_cache
    /\ SameRequestAsPrev
    /\ prev[1].use_cache
    /\ prev[1].completed

NoFetchRun == fetch_log = << >> /\ pc \in { "render", "done" }

\* C1 as stated: a second render with the same point, radius, network type
\* and enabled features and use_cache, after a first one with use_cache,
\* completes without any fetch.  A first render whose save_to_cache only
\* warned refutes it.
C1_SecondRenderNeverFetches == SecondRender => NoFetchRun

\* C1 amended: the second render invokes no fetch when the first one left
\* its dataset in the cache (it loaded it from there, or save_to_cache
\* stored it).
C1_SecondRenderUsesStoredEntry ==
    SecondRender /\ prev[1].stored => NoFetchRun

\* C1 witness: a second render of a theme with features has completed from
\* the entry the first one stored, without a fetch.
C1_Witness ==
    /\ SecondRender
    /\ prev[1].stored
    /\ enabled_features["water"]
    /\ pc = "done"
    /\ output = "written"
    /\ fetch_log = << >>
    /\ load_result = "hit"

\* The fetches of a fresh fetch that ran to its end: the street network,
\* then every enabled feature in the order of the code.
EnabledInOrder ==
    LET on(f) == enabled_features[f] IN SelectSeq(FeatureNames, on)

\* The names of the layers drawn.
DrawnNames == { drawn[i].layer : i \in 1..Len(drawn) }

BaseLayers ==
    { "roads", "fade_bottom", "fade_top", "text_city", "text_country",
      "text_coords", "text_rule" }

\* The features whose data can be drawn: a frame that is not empty, for an
\* area feature once its points and lines are dropped.
Drawable ==
    { f \in FeatureSet :
        /\ feat[f] # << >>
        /\ \E i \in 1..Len(feat[f][1]) :
                f \in AreaFeatureNames => feat[f][1][i] \in area_features }

\* C4: when the fetch of an enabled feature raises, that feature's data is
\* absent (None), the remaining fetches still run, no run is aborted by a
\* feature fetch, and the run that reaches the end writes its output with
\* exactly the layers of the features that have data: only the layers of
\* the features without data are missing.
C4_FeatureFailureContained ==
    /\ \A f \in failed : feat[f] = << >>
    /\ error # "features_from_point"
    /\ pc \in { "save", "render", "done" } /\ load_result # "hit" =>
            fetch_log = << "street" >> \o EnabledInOrder
    /\ pc = "done" =>
            /\ output = "written"
            /\ DrawnNames = BaseLayers \cup Drawable
            /\ failed \cap DrawnNames = {}

\* C4 witness: the railway fetch raised, the water fetch before it returned
\* polygons, and the run wrote its output with the water layer and without
\* the railway layer.
C4_Witness ==
    /\ pc = "done"
    /\ failed = { "railway" }
    /\ fetch_log = << "street", "water", "railway" >>
    /\ "water" \in DrawnNames
    /\ "railway" \notin DrawnNames
    /\ output = "written"

\* C5: a cache file that exists and cannot be unpickled is a miss: the load
\* gives None, nothing is raised, the run fetches afresh (the street network
\* first, then every enabled feature) and writes its output.
C5_CorruptIsMiss ==
    load_result = "corrupt" =>
        /\ cached_data = << >>
        /\ error # "load_from_cache"
        /\ pc = "fetch_street" \/ (fetch_log # << >> /\ fetch_log[1] = "street")
        /\ pc \in { "save", "render", "done" } =>
                fetch_log = << "street" >> \o EnabledInOrder
        /\ pc = "done" => output = "written"

\* C5 witness: a run that found a corrupted entry has fetched afresh,
\* replaced the entry and written its output.
C5_Witness ==
    /\ load_result = "corrupt"
    /\ pc = "done"
    /\ output = "written"
    /\ fetch_log = << "street", "water", "railway" >>
    /\ save_result = "saved"
    /\ cache_files[cache_key].ok

\* C6: a failure of save_to_cache to persist the dataset, whatever it is
\* (the directory cannot be created, the file cannot be opened or written),
\* is reported as a warning only, and the run goes on to write its output.
\* os.makedirs raising refutes it: it is called outside the try block.
C6_SaveIsBestEffort ==
    save_result \in { "warned", "raised" } =>
        /\ "Could not save cache" \in log
        /\ pc # "aborted"
        /\ pc = "done" => output = "written"

\* The position of a layer in the fixed back-to-front order.
Rank(layer) ==
    CASE layer = "coastline" -> 1
      [] layer \in { "forest", "beach", "water" } -> 2
      [] layer \in { "parks", "airport", "education" } -> 3
      [] layer \in { "stadiums", "worship" } -> 4
      [] layer = "railway" -> 5
      [] layer = "roads" -> 6
      [] layer \in { "fade_bottom", "fade_top" } -> 7
      [] OTHER -> 8

\* drawn[i] is stacked in front of drawn[j]: a higher z-order, or the same
\* z-order and drawn later.
InFront(i, j) ==
    \/ drawn[i].zorder > drawn[j].zorder
    \/ drawn[i].zorder = drawn[j].zorder /\ i > j

\* The draw calls are issued in the fixed order.
DrawnInCallOrder ==
    \A i, j \in 1..Len(drawn) :
        Rank(drawn[i].layer) < Rank(drawn[j].layer) => i < j

\* C10: the layers are drawn back to front in the fixed order (coastline,
\* natural fills, urban fills, markers, railways, roads, fades, text): a
\* layer earlier in the list is drawn before, and is not stacked in front
\* of, a layer later in the list.  The railways (z-order 3.5) over roads
\* drawn by plot_graph at its own z-order of 1 refute it.
C10_BackToFront ==
    \A i, j \in 1..Len(drawn) :
        Rank(drawn[i].layer) < Rank(drawn[j].layer) =>
            i < j /\ ~ InFront(i, j)

---------------------------------------------------------------------------
(* Claims about gradient sampling *)

SampleDone == "colors" \in rdone /\ "road_motorway" \in DOMAIN THEME

SampleParams == parse_color_config(THEME["road_motorway"])[2]
SampleStops == gradient_colors(SampleParams)
SampleVertical == gradient_direction(SampleParams) = "vertical"
SampleBox == effective_bounds(G, bounds)

\* The bounds' minimum and maximum along the gradient axis.
AxisMin == IF SampleVertical THEN SampleBox[2] ELSE SampleBox[1]
AxisMax == IF SampleVertical THEN SampleBox[4] ELSE SampleBox[3]

\* Twice the midpoint of edge i along the gradient axis.
Mid2(i) ==
    LET e == G.edges[i]
    IN  IF SampleVertical THEN G.nodes[e.u].y + G.nodes[e.v].y
        ELSE G.nodes[e.u].x + G.nodes[e.v].x

FirstStop == to_rgba(SampleStops[1])
LastStop == to_rgba(SampleStops[Len(SampleStops)])

\* Colour c is on the way from the first stop to colour d, channel by channel.
NotPast(c, d) ==
    \A k \in 1..3 :
        \/ FirstStop[k] <= c[k] /\ c[k] <= d[k] /\ d[k] <= LastStop[k]
        \/ FirstStop[k] >= c[k] /\ c[k] >= d[k] /\ d[k] >= LastStop[k]

\* What C11 says of the ends of the bounds, of positions outside them and of
\* the order of the samples, for bounds with an extent along the axis.
SampleEndsAndOrder ==
    /\ \A i \in 1..Len(edge_colors) :
        /\ Mid2(i) <= 2 * AxisMin => edge_colors[i] = FirstStop
        /\ Mid2(i) >= 2 * AxisMax /\ AxisMax > AxisMin => edge_colors[i] = LastStop
    /\ Len(SampleStops) = 2 =>
        \A i, j \in 1..Len(edge_colors) :
            Mid2(i) <= Mid2(j) => NotPast(edge_colors[i], edge_colors[j])

AtMidpoint(i) ==
    /\ Len(SampleStops) = 2
    /\ AxisMax > AxisMin
    /\ Mid2(i) = AxisMin + AxisMax

\* C11 as stated: the first stop at the bounds' minimum, the last stop at
\* their maximum, positions outside clamped to those two, a 2-stop gradient
\* sampled monotonically, and the midpoint of the bounds giving exactly the
\* midpoint of the two stops.  Entry 128 of a 256-entry colormap refutes the
\* last part, and bounds of no extent refute the second.
C11_MidpointIsExactMiddle ==
    SampleDone =>
        /\ SampleEndsAndOrder
        /\ \A i \in 1..Len(edge_colors) :
            /\ Mid2(i) >= 2 * AxisMax => edge_colors[i] = LastStop
            /\ AtMidpoint(i) =>
                \A k \in 1..3 :
                    2 * edge_colors[i][k] = FirstStop[k] + LastStop[k]

\* C11 amended: as stated for the ends, the clamping and the order when the
\* bounds have an extent along the axis; the midpoint of the bounds gives
\* entry 128 of the 256-entry colormap, 128/255 of the way from the first
\* stop to the last; with bounds of no extent the position at the bounds
\* gives the first stop.
C11_SamplingEndsOrderAndMiddle ==
    SampleDone =>
        /\ SampleEndsAndOrder
        /\ \A i \in 1..Len(edge_colors) :
            AtMidpoint(i) =>
                \A k \in 1..3 :
                    255 * edge_colors[i][k] =
                        127 * FirstStop[k] + 128 * LastStop[k]

\* C11 witness: under a narrower box, a 2-stop gradient sampled on one edge
\* below the box and on one edge at its middle.
C11_Witness ==
    /\ SampleDone
    /\ bounds = << 2, 5, 8, 15 >>
    /\ Len(SampleStops) = 2
    /\ Mid2(1) < 2 * AxisMin
    /\ edge_colors[1] = FirstStop
    /\ AtMidpoint(2)
    /\ edge_colors[2] # FirstStop
    /\ edge_colors[2] # LastStop

---------------------------------------------------------------------------
(* Claims about the colormap cache *)

\* The colour sequences requested so far.
CmapRequested == { cmap_calls[i].request.v : i \in 1..Len(cmap_calls) }

TimesBuilt(c) == Cardinality({ i \in 1..Len(cmap_built) : cmap_built[i] = c })

\* C12: after any sequence of get_cached_cmap calls, CMAP_CACHE holds one
\* entry per distinct colour sequence requested (that from_list accepts),
\* each built exactly once; every call, for a list or for a tuple of the
\* same colours, has returned the colormap the cache holds now, so that no
\* repeated request rebuilt it and no entry was removed or replaced.
C12_BuiltOncePerSequence ==
    /\ DOMAIN CMAP_CACHE = { c \in CmapRequested : Constructible(c) }
    /\ Len(cmap_built) = Cardinality(DOMAIN CMAP_CACHE)
    /\ \A c \in DOMAIN CMAP_CACHE : TimesBuilt(c) = 1
    /\ \A i \in 1..Len(cmap_calls) :
        LET call == cmap_calls[i]
        IN  IF Constructible(call.request.v)
            THEN ~ call.raised /\ call.cmap = << CMAP_CACHE[call.request.v] >>
            ELSE call.raised

\* C12 witness: a list, then a tuple of the same colours, then other
\* colours: two colormaps built in three calls, the first two calls
\* returning the same one.
C12_Witness ==
    /\ Len(cmap_calls) = 3
    /\ cmap_calls[1].request = [ kind |-> "list", v |-> << "#000000", "#FFFFFF" >> ]
    /\ cmap_calls[2].request = [ kind |-> "tuple", v |-> << "#000000", "#FFFFFF" >> ]
    /\ cmap_calls[3].request.v = << "#FFFFFF", "#000000" >>
    /\ cmap_calls[1].cmap = cmap_calls[2].cmap
    /\ cmap_calls[1].cmap # << >>
    /\ Len(cmap_built) = 2

---------------------------------------------------------------------------
(* Claims about the area feature layers *)

\* The frame of feature f as plot_feature receives it.
Filtered(f) == filter_geom(feat[f], area_features)

ResolvedKeys == { resolved[i] : i \in 1..Len(resolved) }

RenderActed == pc = "done" \/ (pc = "aborted" /\ error \in Range(StepNames))

\* C13: of an area feature's collection only the Polygon and MultiPolygon
\* geometries reach drawing; the frame is filtered before the theme colour
\* is resolved, so that a collection that is absent, empty, or empty after
\* filtering is a layer that draws nothing, resolves no colour and raises
\* no error, whatever the theme holds for it.
C13_AreaLayersFilteredFirst ==
    /\ \A i \in 1..Len(drawn) :
        drawn[i].layer \in AreaFeatureNames =>
            /\ drawn[i].geoms = Filtered(drawn[i].layer)[1]
            /\ drawn[i].geoms # << >>
            /\ \A j \in 1..Len(drawn[i].geoms) : drawn[i].geoms[j] \in area_features
    /\ \A f \in AreaFeatureNames :
        /\ f \in ResolvedKeys => Present(Filtered(f))
        /\ RenderActed /\ ~ Present(Filtered(f)) =>
            /\ f \notin DrawnNames
            /\ f \notin ResolvedKeys
            /\ error # "plot_" \o f

\* C13 witness: under the theme whose beach value cannot be drawn, a run has
\* written its output with a beach frame of points and lines only, a water
\* frame that is empty, and a parks frame drawn with its two polygons.
C13_Witness ==
    /\ pc = "done"
    /\ output = "written"
    /\ THEME = DrawThemeUnusable
    /\ feat["beach"] = << << "Point", "LineString" >> >>
    /\ feat["water"] = << << >> >>
    /\ feat["parks"] = << << "Point", "Polygon", "MultiPolygon" >> >>
    /\ \E i \in 1..Len(drawn) :
            drawn[i].layer = "parks" /\ drawn[i].geoms = << "Polygon", "MultiPolygon" >>
    /\ "beach" \notin DrawnNames

---------------------------------------------------------------------------
(* Claims about a failed street-network fetch *)

StreetFailed == error = "graph_from_point"

\* C14: when the street-network fetch fails the run aborts: the street fetch
\* is the only fetch it has made, save_to_cache is not called and the cache
\* directory and its files are as they were, no layer is drawn, no output
\* file is written, and nothing of that run follows (only a new run does).
C14_StreetFailureIsFatal ==
    /\ [](StreetFailed =>
            /\ pc = "aborted"
            /\ fetch_log = << "street" >>
            /\ save_result = "none"
            /\ drawn = << >>
            /\ output = "none")
    /\ [][pc = "fetch_street" /\ StreetFailed' => UNCHANGED fsVars]_vars
    /\ [][StreetFailed => runs' = runs + 1]_vars

\* C14 witness: the street fetch of a run with use_cache and two enabled
\* features has failed, and the run is over.
C14_Witness ==
    /\ StreetFailed
    /\ pc = "aborted"
    /\ args.use_cache
    /\ enabled_features["water"]
    /\ enabled_features["railway"]
    /\ cache_key \notin DOMAIN cache_files

---------------------------------------------------------------------------
(* Claims about parse_color_config *)

VerticalGradient(colors) ==
    Dict([ type |-> "gradient", colors |-> colors, direction |-> "vertical" ])

TaggedGradient(config) ==
    /\ config.kind = "dict"
    /\ "type" \in DOMAIN config.v
    /\ config.v.type = "gradient"

\* C15: parse_color_config makes a bare sequence of at least 2 colours a
\* vertical gradient over those colours, returns a mapping tagged "gradient"
\* unchanged as a gradient, and treats every other value (a string, a
\* mapping without that tag, a sequence of fewer than 2 colours) as Solid.
\* A list of one colour, or of none, made a gradient refutes it.
C15_ShortListIsSolid ==
    pparsed # << >> =>
        pparsed[1] =
            IF pconfig.kind = "list" /\ Len(pconfig.v) >= 2
            THEN << TRUE, VerticalGradient(pconfig.v) >>
            ELSE IF TaggedGradient(pconfig) THEN << TRUE, pconfig >>
            ELSE << FALSE, pconfig >>

\* What the code does: every list, of any length, is made a vertical
\* gradient.
ParseClassifiesByType ==
    pparsed # << >> =>
        pparsed[1] =
            IF pconfig.kind = "list" THEN << TRUE, VerticalGradient(pconfig.v) >>
            ELSE IF TaggedGradient(pconfig) THEN << TRUE, pconfig >>
            ELSE << FALSE, pconfig >>

---------------------------------------------------------------------------
(* Claims about the loading of the theme *)

\* The theme file holds an object with the four required keys.
WellFormedDoc ==
    theme_doc.kind = "dict" /\ RequiredFour \subseteq DOMAIN theme_doc.v

\* C16: loading a theme fails when the document is not a valid mapping or
\* lacks one of bg, text, gradient_color, road_default; hence the theme of
\* every run of create_poster (feature gating, cache lookup, fetching,
\* rendering) holds all four.  load_theme returning whatever object the
\* file holds refutes it.
C16_MalformedThemeIsRejected ==
    /\ theme_loaded = "ok" /\ theme_doc.kind # "missing" => WellFormedDoc
    /\ theme_loaded = "ok" /\ pc # "idle" => RequiredFour \subseteq DOMAIN THEME

---------------------------------------------------------------------------
(* Claims about what a run does to the cache *)

\* Every entry but the one under `key` is the same before and after.
OthersUnchanged(key) ==
    \A k \in (DOMAIN cache_files \cup DOMAIN cache_files') \ { key } :
        /\ k \in DOMAIN cache_files
        /\ k \in DOMAIN cache_files'
        /\ cache_files'[k] = cache_files[k]

\* The run has completed a fresh fetch.
FreshFetchComplete ==
    /\ load_result # "hit"
    /\ cached_data = << >>
    /\ fetch_log = << "street" >> \o EnabledInOrder

\* C17: a run without use_cache neither reads nor writes the cache; a run
\* with a cache hit writes nothing; the cache files change only in the save
\* step of a run with use_cache that has completed a fresh fetch, and only
\* under the key computed from that run's own point, radius, network type
\* and enabled features, every other entry staying as it was.
C17_CacheTouchedOnlyBySave ==
    /\ [](pc # "idle" /\ ~ args.use_cache =>
            load_result = "none" /\ cached_data = << >> /\ save_result = "none")
    /\ [](load_result = "hit" => save_result = "none")
    /\ [][cache_files' # cache_files =>
            /\ pc = "save"
            /\ args.use_cache
            /\ FreshFetchComplete
            /\ cache_key = get_cache_key(args.point, args.dist, args.network_type,
                                         get_enabled_features(THEME))
            /\ cache_key \in DOMAIN cache_files'
            /\ OthersUnchanged(cache_key)]_vars
    /\ [][~ args.use_cache \/ load_result = "hit" => UNCHANGED fsVars]_vars

\* C17 witness: a run has saved its dataset under its own key next to the
\* entry of an earlier run, which is still there.
C17_Witness ==
    /\ save_result = "saved"
    /\ prev # << >>
    /\ prev[1].stored
    /\ prev[1].key # cache_key
    /\ DOMAIN cache_files = { cache_key, prev[1].key }
    /\ cache_files[cache_key].data = Dataset(G, feat)

---------------------------------------------------------------------------
(* Claims about a failed feature fetch and the cache *)

\* The features enabled in the theme of a run that hit the cache which the
\* entry records as absent (None): those whose fetch failed in the run that
\* saved the entry.
StaleFeatures ==
    IF load_result = "hit"
    THEN { f \in FeatureSet :
            enabled_features[f] /\ cache_files[cache_key].data.feat[f] = << >> }
    ELSE {}

\* C18: the dataset saved after a fresh fetch records as absent every
\* enabled feature whose fetch failed; a run that hits a cache entry takes
\* its features from the entry and makes no fetch, so that a feature absent
\* in the entry, though enabled in the theme, is not fetched again and has
\* no layer.
C18_FailedFetchIsCachedAsAbsent ==
    /\ [][save_result' = "saved" /\ pc = "save" =>
            /\ cache_files'[cache_key].ok
            /\ \A f \in failed : cache_files'[cache_key].data.feat[f] = << >>]_vars
    /\ [](load_result = "hit" =>
            /\ fetch_log = << >>
            /\ feat = cache_files[cache_key].data.feat
            /\ \A f \in FeatureSet : feat[f] = << >> => f \notin DrawnNames
            /\ \A f \in StaleFeatures :
                    feat[f] = << >> /\ f \notin DrawnNames)

\* C18 witness: the railway fetch failed in a run that saved its dataset;
\* the next run hit that entry and wrote its output, the railway enabled in
\* its theme, without a fetch and without the railway layer.
C18_Witness ==
    /\ StaleFeatures = { "railway" }
    /\ prev # << >>
    /\ prev[1].stored
    /\ prev[1].key = cache_key
    /\ enabled_features["railway"]
    /\ pc = "done"
    /\ output = "written"
    /\ fetch_log = << >>
    /\ "railway" \notin DrawnNames
    /\ "water" \in DrawnNames

===========================================================================
